---- MODULE Spec2Model ----
(***************************************************************************)
(* DoublePriorityQueue (src/double_priority_queue/mod.rs): a min-max heap  *)
(* over a Store made of an index map (item -> priority, dense slots), the  *)
(* heap vector of slots (shape array) and the qp vector (slot -> heap      *)
(* position).  Vectors are modelled as functions over 0..n-1 so that the   *)
(* index arithmetic of the source (left, right, parent, level) is kept.    *)
(***************************************************************************)
EXTENDS Integers, Sequences, FiniteSets, TLC

\* ------------------------------------------------------------------ bounds
\* the calls from the empty queue: items 1..MaxItem, priorities 0..MaxPrio
MaxItem == 3
MaxPrio == 1
\* the same with a heap of three levels
WideItem == 4
WidePrio == 1
\* queues of DeepLen entries pushed with priorities 0..DeepPrio, then
\* MaxCalls calls with priorities 0..DeepTop
DeepLen == 8
DeepPrio == 1
DeepTop == 2
MaxCalls == 2
\* bulk calls: a batch of at most MaxBatch pairs over the items 1..BulkItem
\* and the priorities 0..BulkPrio, then BulkCalls calls
BulkItem == 3
BulkPrio == 1
MaxBatch == 3
BulkCalls == 2
\* the same with the items 1..WideItem, the priorities 0..WidePrio and
\* batches of at most WideBatch pairs
WideBatch == 4
\* the queue handed to append is built from at most OtherBatch pairs
GrowLen == 9
GrowPrio == 1
OtherBatch == 1
IterCalls == 6
RepairLen == 8
RepairPrio == 1
MaxSize == 8
MaxHint == 17
HintCalls == 1
SafeLen == 6
SafePrio == 1
SafeCalls == 1

Items == 1..MaxItem
Prios == 0..MaxPrio

\* ------------------------------------------------------------ the state
VARIABLES map, heap, qp, size, consumed, cursor, lim

vars == <<map, heap, qp, size, consumed, cursor, lim>>

\* Option<T>
None == <<>>
Some(x) == <<x>>

\* --------------------------------------------------- 0-based vectors (Vec)
VLen(v) == Cardinality(DOMAIN v)
VEmpty == [k \in {} |-> 0]
VPush(v, x) == [k \in 0..VLen(v) |-> IF k = VLen(v) THEN x ELSE v[k]]
VSwapRemove(v, i) ==
    [k \in 0..(VLen(v) - 2) |-> IF k = i THEN v[VLen(v) - 1] ELSE v[k]]
VSwap(v, a, b) ==
    [k \in DOMAIN v |-> IF k = a THEN v[b] ELSE IF k = b THEN v[a] ELSE v[k]]

\* The queue as one value, so that the helpers below are pure operators.
Queue == [map |-> map, heap |-> heap, qp |-> qp, size |-> size]
EmptyQueue == [map |-> VEmpty, heap |-> VEmpty, qp |-> VEmpty, size |-> 0]

\* ------------------------------------------------------- index arithmetic
\* left without the `+ 1`
left_NoPlusOne(i) == i * 2

left(i) == (i * 2) + 1
right(i) == (i * 2) + 2
parent(i) == (i - 1) \div 2

RECURSIVE log2_fast(_)
log2_fast(x) == IF x <= 1 THEN 0 ELSE 1 + log2_fast(x \div 2)

level(i) == log2_fast(i + 1)

\* ------------------------------------------------------------------ Store
\* slot of an item in the index map, or -1
IndexOf(q, item) ==
    IF \E s \in DOMAIN q.map : q.map[s].item = item
    THEN CHOOSE s \in DOMAIN q.map : q.map[s].item = item
    ELSE -1

get_priority(q, item) ==
    IF IndexOf(q, item) = -1 THEN None ELSE Some(q.map[IndexOf(q, item)].prio)

get_priority_from_heap_index(q, pos) == q.map[q.heap[pos]].prio

len(q) == q.size
is_empty(q) == q.size = 0

store_swap(q, a, b) ==
    LET h == VSwap(q.heap, a, b)
    IN  [q EXCEPT !.heap = h, !.qp = VSwap(q.qp, h[a], h[b])]

\* Store::swap_remove(position): result and new store
store_swap_remove(q, position) ==
    IF position >= VLen(q.heap) THEN [q |-> q, r |-> None]
    ELSE
    LET head == q.heap[position]
        h1 == VSwapRemove(q.heap, position)
        sz == q.size - 1
        qp1 == IF position < sz
               THEN [q.qp EXCEPT ![h1[position]] = position]
               ELSE q.qp
        qp2 == VSwapRemove(qp1, head)
        h2 == IF head < sz THEN [h1 EXCEPT ![qp2[head]] = head] ELSE h1
    IN  [q |-> [map |-> VSwapRemove(q.map, head), heap |-> h2,
                qp |-> qp2, size |-> sz],
         r |-> Some(<<q.map[head].item, q.map[head].prio>>)]

\* Store::remove(item): Option<(item, priority, vacated position)>
store_remove(q, item) ==
    LET i == IndexOf(q, item) IN
    IF i = -1 THEN [q |-> q, r |-> None]
    ELSE
    LET pos == q.qp[i]
        qp1 == VSwapRemove(q.qp, i)
        h1 == VSwapRemove(q.heap, pos)
        sz == q.size - 1
        h2 == IF i < sz /\ qp1[i] < sz THEN [h1 EXCEPT ![qp1[i]] = i] ELSE h1
        h3 == IF i < sz /\ qp1[i] = sz THEN [h2 EXCEPT ![pos] = i] ELSE h2
        qp2 == IF pos < sz THEN [qp1 EXCEPT ![h3[pos]] = pos] ELSE qp1
    IN  [q |-> [map |-> VSwapRemove(q.map, i), heap |-> h3,
                qp |-> qp2, size |-> sz],
         r |-> Some(<<q.map[i].item, q.map[i].prio, pos>>)]

\* Store::change_priority(item, new): Option<(old priority, position)>
store_change_priority(q, item, new_priority) ==
    LET i == IndexOf(q, item) IN
    IF i = -1 THEN [q |-> q, r |-> None]
    ELSE [q |-> [q EXCEPT !.map[i].prio = new_priority],
          r |-> Some(<<q.map[i].prio, q.qp[i]>>)]

\* The priority setters handed to change_priority_by: |p| *p = (*p + d) % Modulus
Setters == 0..MaxPrio
Modulus == MaxPrio + 1
ApplySetter(d, p) == (p + d) % Modulus

\* Store::change_priority_by(item, setter): Option<position>
store_change_priority_by(q, item, d) ==
    LET i == IndexOf(q, item) IN
    IF i = -1 THEN [q |-> q, r |-> None]
    ELSE [q |-> [q EXCEPT !.map[i].prio = ApplySetter(d, q.map[i].prio)],
          r |-> Some(q.qp[i])]

\* a new entry in the next slot: map.insert, qp.push(size), heap.push(size)
StoreInsert(q, item, priority) ==
    [map |-> VPush(q.map, [item |-> item, prio |-> priority]),
     heap |-> VPush(q.heap, q.size), qp |-> VPush(q.qp, q.size),
     size |-> q.size + 1]

\* Store::from(vec): "repeated items ignored" (mod.rs 897-898), the first
\* occurrence of an item stays
RECURSIVE StoreFromVecLoop(_, _, _)
StoreFromVecLoop(q, vec, k) ==
    IF k > Len(vec) THEN q
    ELSE StoreFromVecLoop(IF IndexOf(q, vec[k][1]) # -1 THEN q
                          ELSE StoreInsert(q, vec[k][1], vec[k][2]),
                          vec, k + 1)

store_from_vec(vec) == StoreFromVecLoop(EmptyQueue, vec, 1)

\* Store::extend(iter): an item already stored gets the new priority in its
\* slot ("the item inside the pq is updated"), a new one gets the next slot
RECURSIVE StoreExtendLoop(_, _, _)
StoreExtendLoop(q, iter, k) ==
    IF k > Len(iter) THEN q
    ELSE LET e == IndexOf(q, iter[k][1])
         IN  StoreExtendLoop(IF e # -1 THEN [q EXCEPT !.map[e].prio = iter[k][2]]
                             ELSE StoreInsert(q, iter[k][1], iter[k][2]),
                             iter, k + 1)

store_extend(q, iter) == StoreExtendLoop(q, iter, 1)

\* Store::from_iter(iter)
store_from_iter(iter) == StoreExtendLoop(EmptyQueue, iter, 1)

\* Store::append(other): the longer store stays in self (the two are swapped
\* when other is longer), the entries of the shorter one whose item is not
\* yet stored get the next slots, those of equal items are dropped; other
\* ends empty
RECURSIVE StoreAppendLoop(_, _, _)
StoreAppendLoop(q, other, s) ==
    IF s >= VLen(other.map) THEN q
    ELSE StoreAppendLoop(IF IndexOf(q, other.map[s].item) # -1 THEN q
                         ELSE StoreInsert(q, other.map[s].item, other.map[s].prio),
                         other, s + 1)

store_append(q, other) ==
    LET long == IF other.size > q.size THEN other ELSE q
        short == IF other.size > q.size THEN q ELSE other
    IN  [q |-> StoreAppendLoop(long, short, 0), other |-> EmptyQueue]

\* ------------------------------------------------- heap maintenance (mod.rs)
\* [left, right, left-left, right-left, left-right, right-right] filtered by
\* heap.get(i): the positions that exist, in the order the source lists them
Candidates(q, i) ==
    SelectSeq(<<left(i), right(i), left(left(i)), right(left(i)),
                left(right(i)), right(right(i))>>,
              LAMBDA c : c \in DOMAIN q.heap)

\* Iterator::min_by_key: the FIRST element with the minimum key
RECURSIVE MinByKey(_, _, _)
MinByKey(q, cs, k) ==
    IF k > Len(cs) THEN 0
    ELSE IF k = Len(cs) THEN cs[k]
    ELSE LET rest == MinByKey(q, cs, k + 1)
         IN  IF get_priority_from_heap_index(q, cs[k])
                  <= get_priority_from_heap_index(q, rest)
             THEN cs[k] ELSE rest

\* Iterator::max_by_key: the LAST element with the maximum key
RECURSIVE MaxByKey(_, _, _)
MaxByKey(q, cs, k) ==
    IF k > Len(cs) THEN 0
    ELSE IF k = Len(cs) THEN cs[k]
    ELSE LET rest == MaxByKey(q, cs, k + 1)
         IN  IF get_priority_from_heap_index(q, cs[k])
                  > get_priority_from_heap_index(q, rest)
             THEN cs[k] ELSE rest

\* heapify_min that also swaps with a candidate of equal priority
RECURSIVE heapify_min_SwapsOnEqual(_, _)
heapify_min_SwapsOnEqual(q, i) ==
    IF ~(i <= parent(q.size - 1)) THEN q
    ELSE
    LET m == i
        c == MinByKey(q, Candidates(q, m), 1)
    IN  IF get_priority_from_heap_index(q, c) <= get_priority_from_heap_index(q, m)
        THEN LET q1 == store_swap(q, c, m)
                 q2 == IF c > right(m)
                          /\ get_priority_from_heap_index(q1, c)
                               > get_priority_from_heap_index(q1, parent(c))
                       THEN store_swap(q1, c, parent(c))
                       ELSE q1
             IN  heapify_min_SwapsOnEqual(q2, c)
        ELSE q

RECURSIVE heapify_min(_, _)
heapify_min(q, i) ==
    IF ~(i <= parent(q.size - 1)) THEN q
    ELSE
    LET m == i
        c == MinByKey(q, Candidates(q, m), 1)
    IN  IF get_priority_from_heap_index(q, c) < get_priority_from_heap_index(q, m)
        THEN LET q1 == store_swap(q, c, m)
                 q2 == IF c > right(m)
                          /\ get_priority_from_heap_index(q1, c)
                               > get_priority_from_heap_index(q1, parent(c))
                       THEN store_swap(q1, c, parent(c))
                       ELSE q1
             IN  heapify_min(q2, c)
        ELSE q

RECURSIVE heapify_max(_, _)
heapify_max(q, i) ==
    IF ~(i <= parent(q.size - 1)) THEN q
    ELSE
    LET m == i
        c == MaxByKey(q, Candidates(q, m), 1)
    IN  IF get_priority_from_heap_index(q, c) > get_priority_from_heap_index(q, m)
        THEN LET q1 == store_swap(q, c, m)
                 q2 == IF c > right(m)
                          /\ get_priority_from_heap_index(q1, c)
                               < get_priority_from_heap_index(q1, parent(c))
                       THEN store_swap(q1, c, parent(c))
                       ELSE q1
             IN  heapify_max(q2, c)
        ELSE q

heapify(q, i) ==
    IF q.size <= 1 THEN q
    ELSE IF level(i) % 2 = 0 THEN heapify_min(q, i) ELSE heapify_max(q, i)

\* the parent's slot moved down without its entry of qp being updated
MoveDown_NoQp(q, position, from) ==
    [q EXCEPT !.heap = [q.heap EXCEPT ![position] = q.heap[from]]]

\* heap[position] = heap[from]; qp[heap[position]] = position
MoveDown(q, position, from) ==
    LET h == [q.heap EXCEPT ![position] = q.heap[from]]
    IN  [q EXCEPT !.heap = h, !.qp = [q.qp EXCEPT ![h[position]] = position]]

\* both return the final position and the store with the data moved down
RECURSIVE bubble_up_min(_, _, _)
bubble_up_min(q, position, map_position) ==
    IF (position > 0 /\ parent(position) > 0)
       /\ q.map[q.heap[parent(parent(position))]].prio > q.map[map_position].prio
    THEN bubble_up_min(MoveDown(q, position, parent(parent(position))),
                       parent(parent(position)), map_position)
    ELSE [q |-> q, pos |-> position]

RECURSIVE bubble_up_max(_, _, _)
bubble_up_max(q, position, map_position) ==
    IF (position > 0 /\ parent(position) > 0)
       /\ q.map[q.heap[parent(parent(position))]].prio < q.map[map_position].prio
    THEN bubble_up_max(MoveDown(q, position, parent(parent(position))),
                       parent(parent(position)), map_position)
    ELSE [q |-> q, pos |-> position]

\* bubble_up without the comparison with the parent: it climbs the levels of
\* the polarity of `position` only
bubble_up_SameLevelsOnly(q, position, map_position) ==
    LET r == IF position > 0
             THEN IF level(position) % 2 = 0
                  THEN bubble_up_min(q, position, map_position)
                  ELSE bubble_up_max(q, position, map_position)
             ELSE [q |-> q, pos |-> position]
    IN  [q |-> [r.q EXCEPT !.heap[r.pos] = map_position,
                           !.qp[map_position] = r.pos],
         pos |-> r.pos]

bubble_up(q, position, map_position) ==
    LET r == IF position > 0
             THEN IF level(position) % 2 = 0
                  THEN IF q.map[q.heap[parent(position)]].prio
                            < q.map[map_position].prio
                       THEN bubble_up_max(MoveDown(q, position, parent(position)),
                                          parent(position), map_position)
                       ELSE bubble_up_min(q, position, map_position)
                  ELSE IF q.map[q.heap[parent(position)]].prio
                            > q.map[map_position].prio
                       THEN bubble_up_min(MoveDown(q, position, parent(position)),
                                          parent(position), map_position)
                       ELSE bubble_up_max(q, position, map_position)
             ELSE [q |-> q, pos |-> position]
    IN  [q |-> [r.q EXCEPT !.heap[r.pos] = map_position,
                           !.qp[map_position] = r.pos],
         pos |-> r.pos]

up_heapify(q, i) ==
    LET tmp == q.heap[i]
        r == bubble_up(q, i, tmp)
    IN  heapify(r.q, r.pos)

RECURSIVE HeapBuildFrom(_, _)
HeapBuildFrom(q, i) ==
    IF i < 0 THEN q ELSE HeapBuildFrom(heapify(q, i), i - 1)

heap_build(q) == IF q.size = 0 THEN q ELSE HeapBuildFrom(q, parent(q.size))

find_max(q) ==
    IF q.size = 0 THEN None
    ELSE IF q.size = 1 THEN Some(0)
    ELSE IF q.size = 2 THEN Some(1)
    ELSE Some(MaxByKey(q, <<1, 2>>, 1))

find_min(q) == IF q.size = 0 THEN None ELSE Some(0)

\* ------------------------------------------------------ public operations
EntryAt(q, pos) == <<q.map[q.heap[pos]].item, q.map[q.heap[pos]].prio>>

peek_min(q) == IF find_min(q) = None THEN None ELSE Some(EntryAt(q, find_min(q)[1]))
peek_max(q) == IF find_max(q) = None THEN None ELSE Some(EntryAt(q, find_max(q)[1]))

pop_min(q) ==
    IF find_min(q) = None THEN [q |-> q, r |-> None]
    ELSE LET i == find_min(q)[1]
             sr == store_swap_remove(q, i)
         IN  [q |-> heapify(sr.q, i), r |-> sr.r]

\* pop_max that leaves out `self.heapify(i)` after the swap-remove
pop_max_NoHeapify(q) ==
    IF find_max(q) = None THEN [q |-> q, r |-> None]
    ELSE LET i == find_max(q)[1]
             sr == store_swap_remove(q, i)
         IN  [q |-> sr.q, r |-> sr.r]

pop_max(q) ==
    IF find_max(q) = None THEN [q |-> q, r |-> None]
    ELSE LET i == find_max(q)[1]
             sr == store_swap_remove(q, i)
         IN  [q |-> heapify(sr.q, i), r |-> sr.r]

\* push that forgets `self.store.size += 1` after inserting a new item
push_NoSizeUpdate(q, item, priority) ==
    LET e == IndexOf(q, item) IN
    IF e # -1
    THEN LET q1 == [q EXCEPT !.map[e].prio = priority]
         IN  [q |-> up_heapify(q1, q.qp[e]), r |-> Some(q.map[e].prio)]
    ELSE LET i == q.size
             q1 == [map |-> VPush(q.map, [item |-> item, prio |-> priority]),
                    heap |-> VPush(q.heap, i), qp |-> VPush(q.qp, i),
                    size |-> q.size]
             b == bubble_up(q1, i, i)
         IN  [q |-> b.q, r |-> None]

\* push that hands back the new priority of an item already stored
push_ReturnsNew(q, item, priority) ==
    LET e == IndexOf(q, item) IN
    IF e # -1
    THEN LET q1 == [q EXCEPT !.map[e].prio = priority]
         IN  [q |-> up_heapify(q1, q.qp[e]), r |-> Some(priority)]
    ELSE LET i == q.size
             q1 == [map |-> VPush(q.map, [item |-> item, prio |-> priority]),
                    heap |-> VPush(q.heap, i), qp |-> VPush(q.qp, i),
                    size |-> q.size]
             b == bubble_up(q1, i, i)
         IN  [q |-> [b.q EXCEPT !.size = q.size + 1], r |-> None]

\* push that leaves the priority of an item already stored as it was
push_KeepsOldPriority(q, item, priority) ==
    LET e == IndexOf(q, item) IN
    IF e # -1
    THEN [q |-> up_heapify(q, q.qp[e]), r |-> Some(q.map[e].prio)]
    ELSE LET i == q.size
             q1 == [map |-> VPush(q.map, [item |-> item, prio |-> priority]),
                    heap |-> VPush(q.heap, i), qp |-> VPush(q.qp, i),
                    size |-> q.size]
             b == bubble_up(q1, i, i)
         IN  [q |-> [b.q EXCEPT !.size = q.size + 1], r |-> None]

push(q, item, priority) ==
    LET e == IndexOf(q, item) IN
    IF e # -1
    THEN \* Occupied: replace the priority, reposition from the old position
         LET q1 == [q EXCEPT !.map[e].prio = priority]
         IN  [q |-> up_heapify(q1, q.qp[e]), r |-> Some(q.map[e].prio)]
    ELSE \* Vacant: new slot i = size, appended to qp and heap, bubbled up
         LET i == q.size
             q1 == [map |-> VPush(q.map, [item |-> item, prio |-> priority]),
                    heap |-> VPush(q.heap, i), qp |-> VPush(q.qp, i),
                    size |-> q.size]
             b == bubble_up(q1, i, i)
         IN  [q |-> [b.q EXCEPT !.size = q.size + 1], r |-> None]

\* push_increase with the comparison of push_decrease
push_increase_Reversed(q, item, priority) ==
    IF get_priority(q, item) = None \/ priority < get_priority(q, item)[1]
    THEN push(q, item, priority)
    ELSE [q |-> q, r |-> Some(priority)]

push_increase(q, item, priority) ==
    IF get_priority(q, item) = None \/ priority > get_priority(q, item)[1]
    THEN push(q, item, priority)
    ELSE [q |-> q, r |-> Some(priority)]

push_decrease(q, item, priority) ==
    IF get_priority(q, item) = None \/ priority < get_priority(q, item)[1]
    THEN push(q, item, priority)
    ELSE [q |-> q, r |-> Some(priority)]

\* change_priority that takes the pair (old priority, position) the wrong
\* way round
change_priority_Swapped(q, item, new_priority) ==
    LET c == store_change_priority(q, item, new_priority) IN
    IF c.r # None
    THEN [q |-> up_heapify(c.q, c.r[1][2]), r |-> Some(c.r[1][2])]
    ELSE [q |-> q, r |-> None]

\* change_priority that answers an absent item with the priority it was given
change_priority_AbsentReturnsNew(q, item, new_priority) ==
    LET c == store_change_priority(q, item, new_priority) IN
    IF c.r # None
    THEN [q |-> up_heapify(c.q, c.r[1][2]), r |-> Some(c.r[1][1])]
    ELSE [q |-> q, r |-> Some(new_priority)]

change_priority(q, item, new_priority) ==
    LET c == store_change_priority(q, item, new_priority) IN
    IF c.r # None
    THEN [q |-> up_heapify(c.q, c.r[1][2]), r |-> Some(c.r[1][1])]
    ELSE [q |-> q, r |-> None]

change_priority_by(q, item, d) ==
    LET c == store_change_priority_by(q, item, d) IN
    IF c.r # None
    THEN [q |-> up_heapify(c.q, c.r[1]), r |-> None]
    ELSE [q |-> q, r |-> None]

\* remove that returns the vacated position in place of the priority
remove_ReturnsPosition(q, item) ==
    LET c == store_remove(q, item) IN
    IF c.r = None THEN [q |-> q, r |-> None]
    ELSE LET pos == c.r[1][3]
         IN  [q |-> IF pos < c.q.size THEN up_heapify(c.q, pos) ELSE c.q,
              r |-> Some(<<c.r[1][1], pos>>)]

remove(q, item) ==
    LET c == store_remove(q, item) IN
    IF c.r = None THEN [q |-> q, r |-> None]
    ELSE LET pos == c.r[1][3]
         IN  [q |-> IF pos < c.q.size THEN up_heapify(c.q, pos) ELSE c.q,
              r |-> Some(<<c.r[1][1], c.r[1][2]>>)]

\* while let Some((i, _)) = self.pop_min() { res.push(i) }
RECURSIVE DrainMin(_)
DrainMin(q) ==
    LET p == pop_min(q)
    IN  IF p.r = None THEN <<>> ELSE <<p.r[1]>> \o DrainMin(p.q)

RECURSIVE DrainMax(_)
DrainMax(q) ==
    LET p == pop_max(q)
    IN  IF p.r = None THEN <<>> ELSE <<p.r[1]>> \o DrainMax(p.q)

ItemsOf(pairs) == [k \in DOMAIN pairs |-> pairs[k][1]]

into_ascending_sorted_vec(q) == ItemsOf(DrainMin(q))
into_descending_sorted_vec(q) == ItemsOf(DrainMax(q))

\* ------------------------------------------- unchecked accesses, by call
\* Each operator below follows the operation of the same name and is TRUE
\* when every get_unchecked, every unwrap and every unsigned subtraction the
\* operation performs on the way is defined.

\* heap.get_unchecked(i), qp.get_unchecked(s), map.get_index(s).unwrap()
InHeap(q, i) == i \in DOMAIN q.heap
InQp(q, s) == s \in DOMAIN q.qp
InMap(q, s) == s \in DOMAIN q.map

\* get_priority_from_heap_index(i): heap.get_unchecked(i), then the map
PrioInRange(q, i) == InHeap(q, i) /\ InMap(q, q.heap[i])

\* x - 1 on usize
Positive(x) == x > 0

\* heapify_min with the same loop, asking `>` for `<`: the walk of heapify_max
RECURSIVE heapify_max_safe(_, _)
heapify_max_safe(q, i) ==
    /\ Positive(q.size)
    /\ Positive(q.size - 1)
    /\ IF ~(i <= parent(q.size - 1)) THEN TRUE
       ELSE
       LET m == i
           cs == Candidates(q, m)
       IN  /\ cs # <<>>
           /\ \A k \in DOMAIN cs : InMap(q, q.heap[cs[k]])
           /\ LET c == MaxByKey(q, cs, 1)
              IN  /\ PrioInRange(q, c)
                  /\ PrioInRange(q, m)
                  /\ IF get_priority_from_heap_index(q, c)
                          > get_priority_from_heap_index(q, m)
                     THEN LET q1 == store_swap(q, c, m)
                              fix == c > right(m)
                                       /\ get_priority_from_heap_index(q1, c)
                                            < get_priority_from_heap_index(q1, parent(c))
                              q2 == IF fix THEN store_swap(q1, c, parent(c)) ELSE q1
                          IN  /\ InQp(q, q.heap[c]) /\ InQp(q, q.heap[m])
                              /\ c > right(m) => /\ Positive(c)
                                                 /\ PrioInRange(q1, c)
                                                 /\ PrioInRange(q1, parent(c))
                              /\ heapify_max_safe(q2, c)
                     ELSE TRUE

RECURSIVE heapify_min_safe(_, _)
heapify_min_safe(q, i) ==
    /\ Positive(q.size)
    /\ Positive(q.size - 1)
    /\ IF ~(i <= parent(q.size - 1)) THEN TRUE
       ELSE
       LET m == i
           cs == Candidates(q, m)
       IN  /\ cs # <<>>
           /\ \A k \in DOMAIN cs : InMap(q, q.heap[cs[k]])
           /\ LET c == MinByKey(q, cs, 1)
              IN  /\ PrioInRange(q, c)
                  /\ PrioInRange(q, m)
                  /\ IF get_priority_from_heap_index(q, c)
                          < get_priority_from_heap_index(q, m)
                     THEN LET q1 == store_swap(q, c, m)
                              fix == c > right(m)
                                       /\ get_priority_from_heap_index(q1, c)
                                            > get_priority_from_heap_index(q1, parent(c))
                              q2 == IF fix THEN store_swap(q1, c, parent(c)) ELSE q1
                          IN  /\ InQp(q, q.heap[c]) /\ InQp(q, q.heap[m])
                              /\ c > right(m) => /\ Positive(c)
                                                 /\ PrioInRange(q1, c)
                                                 /\ PrioInRange(q1, parent(c))
                              /\ heapify_min_safe(q2, c)
                     ELSE TRUE

\* heapify without `if self.store.size <= 1 { return; }`
heapify_safe_NoSizeGuard(q, i) ==
    IF level(i) % 2 = 0 THEN heapify_min_safe(q, i) ELSE heapify_max_safe(q, i)

heapify_safe(q, i) ==
    IF q.size <= 1 THEN TRUE
    ELSE IF level(i) % 2 = 0 THEN heapify_min_safe(q, i) ELSE heapify_max_safe(q, i)

\* heap[position] = heap[from]; qp[heap[position]] = position
MoveDown_safe(q, position, from) ==
    /\ InHeap(q, position)
    /\ InHeap(q, from)
    /\ InQp(q, q.heap[from])

RECURSIVE bubble_up_min_safe(_, _, _)
bubble_up_min_safe(q, position, map_position) ==
    IF position > 0 /\ parent(position) > 0
    THEN /\ Positive(position)
         /\ Positive(parent(position))
         /\ InHeap(q, parent(parent(position)))
         /\ InMap(q, q.heap[parent(parent(position))])
         /\ InMap(q, map_position)
         /\ IF q.map[q.heap[parent(parent(position))]].prio > q.map[map_position].prio
            THEN /\ MoveDown_safe(q, position, parent(parent(position)))
                 /\ bubble_up_min_safe(MoveDown(q, position, parent(parent(position))),
                                       parent(parent(position)), map_position)
            ELSE TRUE
    ELSE TRUE

RECURSIVE bubble_up_max_safe(_, _, _)
bubble_up_max_safe(q, position, map_position) ==
    IF position > 0 /\ parent(position) > 0
    THEN /\ Positive(position)
         /\ Positive(parent(position))
         /\ InHeap(q, parent(parent(position)))
         /\ InMap(q, q.heap[parent(parent(position))])
         /\ InMap(q, map_position)
         /\ IF q.map[q.heap[parent(parent(position))]].prio < q.map[map_position].prio
            THEN /\ MoveDown_safe(q, position, parent(parent(position)))
                 /\ bubble_up_max_safe(MoveDown(q, position, parent(parent(position))),
                                       parent(parent(position)), map_position)
            ELSE TRUE
    ELSE TRUE

bubble_up_safe(q, position, map_position) ==
    /\ IF position > 0
       THEN /\ Positive(position)
            /\ InHeap(q, parent(position))
            /\ InMap(q, q.heap[parent(position)])
            /\ InMap(q, map_position)
            /\ IF level(position) % 2 = 0
               THEN IF q.map[q.heap[parent(position)]].prio
                         < q.map[map_position].prio
                    THEN /\ MoveDown_safe(q, position, parent(position))
                         /\ bubble_up_max_safe(MoveDown(q, position, parent(position)),
                                               parent(position), map_position)
                    ELSE bubble_up_min_safe(q, position, map_position)
               ELSE IF q.map[q.heap[parent(position)]].prio
                         > q.map[map_position].prio
                    THEN /\ MoveDown_safe(q, position, parent(position))
                         /\ bubble_up_min_safe(MoveDown(q, position, parent(position)),
                                               parent(position), map_position)
                    ELSE bubble_up_max_safe(q, position, map_position)
       ELSE TRUE
    /\ InHeap(q, bubble_up(q, position, map_position).pos)
    /\ InQp(q, map_position)

up_heapify_safe(q, i) ==
    /\ InHeap(q, i)
    /\ bubble_up_safe(q, i, q.heap[i])
    /\ LET r == bubble_up(q, i, q.heap[i]) IN heapify_safe(r.q, r.pos)

RECURSIVE HeapBuildSafeFrom(_, _)
HeapBuildSafeFrom(q, i) ==
    IF i < 0 THEN TRUE
    ELSE heapify_safe(q, i) /\ HeapBuildSafeFrom(heapify(q, i), i - 1)

heap_build_safe(q) ==
    IF q.size = 0 THEN TRUE
    ELSE Positive(q.size) /\ HeapBuildSafeFrom(q, parent(q.size))

find_max_safe(q) == q.size >= 3 => PrioInRange(q, 1) /\ PrioInRange(q, 2)

peek_min_safe(q) == find_min(q) # None => InHeap(q, find_min(q)[1])

peek_max_safe(q) ==
    /\ find_max_safe(q)
    /\ find_max(q) # None => InHeap(q, find_max(q)[1])

pop_min_safe(q) ==
    find_min(q) # None =>
        heapify_safe(store_swap_remove(q, find_min(q)[1]).q, find_min(q)[1])

pop_max_safe(q) ==
    /\ find_max_safe(q)
    /\ find_max(q) # None =>
           heapify_safe(store_swap_remove(q, find_max(q)[1]).q, find_max(q)[1])

push_safe(q, item, priority) ==
    LET e == IndexOf(q, item) IN
    IF e # -1
    THEN /\ InQp(q, e)
         /\ up_heapify_safe([q EXCEPT !.map[e].prio = priority], q.qp[e])
    ELSE LET i == q.size
             q1 == [map |-> VPush(q.map, [item |-> item, prio |-> priority]),
                    heap |-> VPush(q.heap, i), qp |-> VPush(q.qp, i),
                    size |-> q.size]
         IN  bubble_up_safe(q1, i, i)

change_priority_safe(q, item, new_priority) ==
    LET c == store_change_priority(q, item, new_priority) IN
    c.r # None => up_heapify_safe(c.q, c.r[1][2])

remove_safe(q, item) ==
    LET c == store_remove(q, item) IN
    (c.r # None /\ c.r[1][3] < c.q.size) => up_heapify_safe(c.q, c.r[1][3])

\* From<Vec<(I, P)>>::from
from_vec(vec) == heap_build(store_from_vec(vec))

\* FromIterator::from_iter built on Store::from, the constructor of From<Vec>
from_iter_FromVec(iter) == heap_build(store_from_vec(iter))

\* FromIterator::from_iter
from_iter(iter) == heap_build(store_from_iter(iter))

\* better_to_rebuild that leaves the logarithm out of the cost of the pushes
better_to_rebuild_NoLog(len1, len2) ==
    IF len1 <= 1 THEN FALSE
    ELSE 2 * (len1 + len2) < len2 * len1

\* better_to_rebuild(len1, len2)
better_to_rebuild(len1, len2) ==
    IF len1 <= 1 THEN FALSE
    ELSE 2 * (len1 + len2) < len2 * log2_fast(len1)

\* the rebuild branch of extend: self.store.extend(iter); self.heap_build()
extend_rebuild(q, iter) == heap_build(store_extend(q, iter))

\* the other branch: for (item, priority) in iter { self.push(item, priority) }
RECURSIVE ExtendPushLoop(_, _, _)
ExtendPushLoop(q, iter, k) ==
    IF k > Len(iter) THEN q
    ELSE ExtendPushLoop(push(q, iter[k][1], iter[k][2]).q, iter, k + 1)

extend_push(q, iter) == ExtendPushLoop(q, iter, 1)

\* Extend::extend with an iterator over a vector, whose size_hint is
\* (len, Some(len))
extend(q, iter) ==
    LET max == Len(iter)
        rebuild == better_to_rebuild(q.size, max)
    IN  IF rebuild THEN extend_rebuild(q, iter) ELSE extend_push(q, iter)

\* `rebuild` in Extend::extend, for an iterator whose size_hint is (min, max)
rebuild(n, min, max) ==
    IF max # None THEN better_to_rebuild(n, max[1])
    ELSE IF min # 0 THEN better_to_rebuild(n, min)
    ELSE FALSE

\* Extend::extend with an iterator of size_hint (min, max) that yields iter
extend_hinted(q, iter, min, max) ==
    IF rebuild(q.size, min, max) THEN extend_rebuild(q, iter)
    ELSE extend_push(q, iter)

\* From<PriorityQueue>::from: the store of the single-ended queue, rebuilt
from_priority_queue(pq) == heap_build(pq)

\* iter_mut: the traversal leaves the priority f[s] in slot s, and the heap
\* is rebuilt when the IterMut goes out of scope
iter_mut(q, f) ==
    heap_build([q EXCEPT !.map = [s \in DOMAIN q.map |->
                                    [item |-> q.map[s].item, prio |-> f[s]]]])

\* the priorities by slot
PrioritiesOf(q) == [s \in DOMAIN q.map |-> q.map[s].prio]

\* append that leaves out the heap_build
append_NoHeapBuild(q, other) == store_append(q, other)

\* append(other): self.store.append(&mut other.store); self.heap_build()
append(q, other) ==
    LET a == store_append(q, other)
    IN  [q |-> heap_build(a.q), other |-> a.other]

\* ---------------------------------------------------------- state machine
\* lim holds what a behaviour tries the calls with: the items, the
\* priorities, and the number of calls left (None: no cap).  Only the number
\* of calls left ever changes.
Limits(items, prios, calls) == [items |-> items, prios |-> prios, fuel |-> calls]

ItemsInPlay == lim.items
PriosInPlay == lim.prios

Spend ==
    /\ lim.fuel # None => lim.fuel[1] > 0
    /\ lim' = IF lim.fuel = None THEN lim
              ELSE [lim EXCEPT !.fuel = Some(lim.fuel[1] - 1)]

\* into_*_sorted_vec consumed the queue: no call can follow; while an IterMut
\* is alive it borrows the queue exclusively: no call can be made either
Alive == ~consumed /\ cursor = None

\* The state after a call is the store the call leaves behind.
Install(r) ==
    /\ Spend
    /\ map' = r.q.map
    /\ heap' = r.q.heap
    /\ qp' = r.q.qp
    /\ size' = r.q.size
    /\ UNCHANGED <<consumed, cursor>>

\* DoublePriorityQueue::new()
Fresh ==
    /\ map = VEmpty
    /\ heap = VEmpty
    /\ qp = VEmpty
    /\ size = 0
    /\ consumed = FALSE
    /\ cursor = None

Init == Fresh /\ lim = Limits(Items, Prios, None)

Push == \E item \in ItemsInPlay, p \in PriosInPlay : Alive /\ Install(push(Queue, item, p))

PushIncrease ==
    \E item \in ItemsInPlay, p \in PriosInPlay :
        Alive /\ Install(push_increase(Queue, item, p))

PushDecrease ==
    \E item \in ItemsInPlay, p \in PriosInPlay :
        Alive /\ Install(push_decrease(Queue, item, p))

ChangePriority ==
    \E item \in ItemsInPlay, p \in PriosInPlay :
        Alive /\ Install(change_priority(Queue, item, p))

ChangePriorityBy ==
    \E item \in ItemsInPlay, d \in Setters :
        Alive /\ Install(change_priority_by(Queue, item, d))

Remove == \E item \in ItemsInPlay : Alive /\ Install(remove(Queue, item))

PopMin == Alive /\ Install(pop_min(Queue))

PopMax == Alive /\ Install(pop_max(Queue))

\* into_*_sorted_vec take self by value and pop until None (the vector holds
\* store.size items): the queue is drained and gone afterwards
Consume(vec) ==
    /\ Spend
    /\ consumed' = TRUE
    /\ UNCHANGED cursor
    /\ map' = VEmpty /\ heap' = VEmpty /\ qp' = VEmpty /\ size' = 0

IntoAscendingSortedVec == Alive /\ Consume(into_ascending_sorted_vec(Queue))

IntoDescendingSortedVec == Alive /\ Consume(into_descending_sorted_vec(Queue))

Next ==
    \/ Push
    \/ PushIncrease
    \/ PushDecrease
    \/ ChangePriority
    \/ ChangePriorityBy
    \/ Remove
    \/ PopMin
    \/ PopMax
    \/ IntoAscendingSortedVec
    \/ IntoDescendingSortedVec

\* every call, from the empty queue
Spec == Init /\ [][Next]_vars

\* the same with one more item, so that the heap has a third level
InitWide == Fresh /\ lim = Limits(1..WideItem, 0..WidePrio, None)

SpecWide == InitWide /\ [][Next]_vars

\* pushes only, from the empty queue (then drained by repeated pops)
NextPush ==
    \/ Push
    \/ IntoAscendingSortedVec
    \/ IntoDescendingSortedVec

SpecPush == InitWide /\ [][NextPush]_vars

\* A queue of DeepLen entries (four levels) built by pushing the items
\* 1..DeepLen with the priorities f[1], f[2], ... in turn, then MaxCalls calls.
RECURSIVE PushAll(_, _, _)
PushAll(q, f, k) ==
    IF k > DeepLen THEN q ELSE PushAll(push(q, k, f[k]).q, f, k + 1)

InitDeep ==
    \E f \in [1..DeepLen -> 0..DeepPrio] :
        LET q == PushAll(EmptyQueue, f, 1)
        IN  /\ map = q.map
            /\ heap = q.heap
            /\ qp = q.qp
            /\ size = q.size
            /\ consumed = FALSE
            /\ cursor = None
            /\ lim = Limits(1..DeepLen, 0..DeepTop, Some(MaxCalls))

NextDeep ==
    \/ ChangePriority
    \/ PopMin
    \/ PopMax

SpecDeep == InitDeep /\ [][NextDeep]_vars

\* The same queues of DeepLen entries, emptied by pop_max alone.
InitPops ==
    \E f \in [1..DeepLen -> 0..DeepPrio] :
        LET q == PushAll(EmptyQueue, f, 1)
        IN  /\ map = q.map
            /\ heap = q.heap
            /\ qp = q.qp
            /\ size = q.size
            /\ consumed = FALSE
            /\ cursor = None
            /\ lim = Limits(1..DeepLen, 0..DeepPrio, None)

SpecPopMax == InitPops /\ [][PopMax]_vars

\* Pushes of items not yet stored, from the empty queue: the items
\* 1, 2, ... in turn, each with any priority, up to GrowLen entries.
InitGrow == Fresh /\ lim = Limits(1..GrowLen, 0..GrowPrio, None)

PushNew ==
    /\ size + 1 \in ItemsInPlay
    /\ \E p \in PriosInPlay : Alive /\ Install(push(Queue, size + 1, p))

SpecGrow == InitGrow /\ [][PushNew]_vars

\* ------------------------------------------------------------- bulk calls
\* the batches of at most n (item, priority) pairs
Batches(items, prios, n) == UNION {[1..k -> items \X prios] : k \in 0..n}

\* the batch the bulk calls of a behaviour are made with
Batch == lim.batch

InitBulk ==
    /\ Fresh
    /\ \E b \in Batches(1..BulkItem, 0..BulkPrio, MaxBatch) :
         lim = [items |-> 1..BulkItem, prios |-> 0..BulkPrio,
                fuel |-> Some(BulkCalls), batch |-> b]

\* let pq = DoublePriorityQueue::from(vec)
FromVec == Alive /\ Install([q |-> from_vec(Batch), r |-> None])

\* let pq: DoublePriorityQueue<_, _> = iter.collect()
FromIter == Alive /\ Install([q |-> from_iter(Batch), r |-> None])

NextBulk ==
    \/ FromVec
    \/ FromIter

SpecBulk == InitBulk /\ [][NextBulk]_vars

\* pq.extend(vec)
Extend == Alive /\ Install([q |-> extend(Queue, Batch), r |-> None])

\* the queues that append is handed: collected from a short batch
Others == {from_iter(b) : b \in Batches(ItemsInPlay, PriosInPlay, OtherBatch)}

\* pq.append(&mut other)
AppendOther ==
    \E other \in Others :
        Alive /\ Install([q |-> append(Queue, other).q, r |-> None])

\* a queue collected from a batch
InitBuilt ==
    /\ \E b \in Batches(1..BulkItem, 0..BulkPrio, MaxBatch) :
         LET q == from_iter(b)
         IN  map = q.map /\ heap = q.heap /\ qp = q.qp /\ size = q.size
    /\ consumed = FALSE
    /\ cursor = None
    /\ lim = Limits(1..BulkItem, 0..BulkPrio, None)

NextAppend ==
    \/ AppendOther
    \/ PopMin
    \/ PopMax

SpecAppend == InitBuilt /\ [][NextAppend]_vars

\* The store of a single-ended PriorityQueue that was pushed the batch, whose
\* items are distinct and whose priorities never increase: the slots and the
\* heap are in the order of the pushes (a binary max-heap).
PushedInOrder(b) ==
    /\ \A j \in DOMAIN b : \A k \in DOMAIN b : j < k => b[j][1] # b[k][1]
    /\ \A j \in DOMAIN b : \A k \in DOMAIN b : j < k => b[j][2] >= b[k][2]

\* let pq = DoublePriorityQueue::from(priority_queue)
FromPriorityQueue ==
    /\ Alive
    /\ PushedInOrder(Batch)
    /\ Install([q |-> from_priority_queue(store_from_iter(Batch)), r |-> None])

\* for (_, p) in pq.iter_mut() { *p = ... }
IterMut ==
    \E f \in [DOMAIN map -> PriosInPlay] :
        Alive /\ Install([q |-> iter_mut(Queue, f), r |-> None])

NextTraverse ==
    \/ IterMut
    \/ PopMin
    \/ PopMax

SpecTraverse == InitBuilt /\ [][NextTraverse]_vars

\* The mutable traversal step by step. iter_mut hands out an IterMut at slot
\* 0; each next() yields one slot, whose priority the caller may overwrite;
\* the IterMut may be dropped at any slot, and its drop rebuilds the heap.
IterMutNew ==
    /\ Alive
    /\ Spend
    /\ cursor' = Some(0)
    /\ UNCHANGED <<map, heap, qp, size, consumed>>

IterMutNextItem ==
    /\ cursor # None
    /\ cursor[1] < VLen(map)
    /\ \E p \in PriosInPlay : map' = [map EXCEPT ![cursor[1]].prio = p]
    /\ cursor' = Some(cursor[1] + 1)
    /\ UNCHANGED <<heap, qp, size, consumed, lim>>

IterMutDrop ==
    /\ cursor # None
    /\ LET q == heap_build(Queue)
       IN  /\ map' = q.map
           /\ heap' = q.heap
           /\ qp' = q.qp
           /\ size' = q.size
    /\ cursor' = None
    /\ UNCHANGED <<consumed, lim>>

InitIterMut == Fresh /\ lim = Limits(1..WideItem, 0..WidePrio, Some(IterCalls))

NextIterMut ==
    \/ PushNew
    \/ PopMax
    \/ IterMutNew
    \/ IterMutNextItem
    \/ IterMutDrop

SpecIterMut == InitIterMut /\ [][NextIterMut]_vars

\* A traversal that has written any priorities at all over RepairLen entries
\* pushed with equal priorities, and is about to be dropped: the shape array
\* is in the order of the pushes and the priorities are arbitrary.
InitRepair ==
    \E f \in [1..RepairLen -> 0..RepairPrio] :
        LET q == store_from_vec([k \in 1..RepairLen |-> <<k, f[k]>>])
        IN  /\ map = q.map
            /\ heap = q.heap
            /\ qp = q.qp
            /\ size = q.size
            /\ consumed = FALSE
            /\ cursor = Some(RepairLen)
            /\ lim = Limits(1..RepairLen, 0..RepairPrio, None)

SpecRepair == InitRepair /\ [][IterMutDrop]_vars

\* extend called HintCalls times on a queue of n entries of equal priority with an
\* iterator whose size_hint is lim.hint and which yields as many new items
\* as its lower bound says.
SizeHints ==
    {[min |-> lo, max |-> hi] :
        lo \in 0..MaxHint, hi \in {None} \cup {Some(x) : x \in 0..MaxHint}}

InitHinted ==
    \E n \in 0..MaxSize : \E h \in SizeHints :
        LET q == from_vec([k \in 1..n |-> <<k, 0>>])
        IN  /\ h.max # None => h.min <= h.max[1]
            /\ map = q.map
            /\ heap = q.heap
            /\ qp = q.qp
            /\ size = q.size
            /\ consumed = FALSE
            /\ cursor = None
            /\ lim = [items |-> 1..(MaxSize + MaxHint), prios |-> {0},
                      fuel |-> Some(HintCalls), hint |-> h]

ExtendHinted ==
    /\ Alive
    /\ Install([q |-> extend_hinted(Queue,
                                    [k \in 1..lim.hint.min |-> <<size + k, 0>>],
                                    lim.hint.min, lim.hint.max),
                r |-> None])

SpecHinted == InitHinted /\ [][ExtendHinted]_vars

\* Queues of up to SafeLen entries built by pushes, then SafeCalls pops.
RECURSIVE Pushed(_, _)
Pushed(f, n) == IF n = 0 THEN EmptyQueue ELSE push(Pushed(f, n - 1), n, f[n]).q

InitSafe ==
    \E n \in 0..SafeLen : \E f \in [1..n -> 0..SafePrio] :
        LET q == Pushed(f, n)
        IN  /\ map = q.map
            /\ heap = q.heap
            /\ qp = q.qp
            /\ size = q.size
            /\ consumed = FALSE
            /\ cursor = None
            /\ lim = Limits(1..(SafeLen + 1), 0..SafePrio, Some(SafeCalls))

NextSafe ==
    \/ PopMin
    \/ PopMax

SpecSafe == InitSafe /\ [][NextSafe]_vars

InitBulkWide ==
    /\ Fresh
    /\ \E b \in Batches(1..WideItem, 0..WidePrio, WideBatch) :
         lim = [items |-> 1..WideItem, prios |-> 0..WidePrio,
                fuel |-> Some(BulkCalls), batch |-> b]

NextBulkWide ==
    \/ FromVec
    \/ FromIter
    \/ FromPriorityQueue
    \/ Extend

SpecBulkWide == InitBulkWide /\ [][NextBulkWide]_vars

\* -------------------------------------------------------------- properties
PrioAt(pos) == map[heap[pos]].prio

\* qp and heap are inverse of each other and all three structures have size entries
DualIndirection ==
    /\ DOMAIN map = 0..(size - 1)
    /\ DOMAIN heap = 0..(size - 1)
    /\ DOMAIN qp = 0..(size - 1)
    /\ \A p \in DOMAIN heap : heap[p] \in DOMAIN qp /\ qp[heap[p]] = p

RECURSIVE IsDescendant(_, _)
IsDescendant(d, p) == d > p /\ (parent(d) = p \/ IsDescendant(parent(d), p))

MinMaxHeap ==
    \A p \in DOMAIN heap : \A d \in DOMAIN heap :
        IsDescendant(d, p) =>
            IF level(p) % 2 = 0 THEN PrioAt(p) <= PrioAt(d) ELSE PrioAt(p) >= PrioAt(d)

\* the same of a queue value q
MinMaxHeapOf(q) ==
    \A p \in DOMAIN q.heap : \A d \in DOMAIN q.heap :
        IsDescendant(d, p) =>
            IF level(p) % 2 = 0
            THEN get_priority_from_heap_index(q, p) <= get_priority_from_heap_index(q, d)
            ELSE get_priority_from_heap_index(q, p) >= get_priority_from_heap_index(q, d)

\* the (item, priority) pairs stored in q
Entries(q) == {<<q.map[s].item, q.map[s].prio>> : s \in DOMAIN q.map}

IsGreatest(q, e) == e \in Entries(q) /\ \A f \in Entries(q) : e[2] >= f[2]
IsLeast(q, e) == e \in Entries(q) /\ \A f \in Entries(q) : e[2] <= f[2]

PrioOf(q, item) == q.map[IndexOf(q, item)].prio
StoredItems(q) == {q.map[s].item : s \in DOMAIN q.map}

\* every element of the queue occurs exactly once in the vector v of items
EachItemOnce(q, v) ==
    /\ Len(v) = VLen(q.map)
    /\ {v[k] : k \in DOMAIN v} = StoredItems(q)

\* C1: peek_max returns None iff the queue is empty and otherwise a stored
\* (item, priority) pair whose priority is >= every priority in the queue;
\* pop_max removes and returns such a pair.
PeekMaxIsGreatest ==
    /\ (peek_max(Queue) = None) <=> is_empty(Queue)
    /\ ~is_empty(Queue) =>
        /\ IsGreatest(Queue, peek_max(Queue)[1])
        /\ pop_max(Queue).r # None
        /\ IsGreatest(Queue, pop_max(Queue).r[1])
        /\ Entries(pop_max(Queue).q) = Entries(Queue) \ {pop_max(Queue).r[1]}

\* C2: peek_min returns None iff the queue is empty and otherwise a stored
\* (item, priority) pair whose priority is <= every priority in the queue;
\* pop_min removes and returns such a pair.
PeekMinIsLeast ==
    /\ (peek_min(Queue) = None) <=> is_empty(Queue)
    /\ ~is_empty(Queue) =>
        /\ IsLeast(Queue, peek_min(Queue)[1])
        /\ pop_min(Queue).r # None
        /\ IsLeast(Queue, pop_min(Queue).r[1])
        /\ Entries(pop_min(Queue).q) = Entries(Queue) \ {pop_min(Queue).r[1]}

\* C3: at the end of every public mutating call every even-level position
\* is <= all its descendants and every odd-level position is >= all its
\* descendants.
MinMaxHeapInvariant == MinMaxHeap

\* C4: after pushes into an empty queue, repeated pop_min until None yields
\* every pushed item exactly once with non-decreasing priorities, and
\* repeated pop_max yields every item exactly once with non-increasing
\* priorities.
PushThenPopSorted ==
    LET lo == DrainMin(Queue)
        hi == DrainMax(Queue)
    IN  /\ EachItemOnce(Queue, ItemsOf(lo))
        /\ EachItemOnce(Queue, ItemsOf(hi))
        /\ \A j \in DOMAIN lo : \A k \in DOMAIN lo : j < k => lo[j][2] <= lo[k][2]
        /\ \A j \in DOMAIN hi : \A k \in DOMAIN hi : j < k => hi[j][2] >= hi[k][2]

\* C5: into_ascending_sorted_vec returns every item of the queue exactly
\* once ordered from the lowest priority to the highest, and
\* into_descending_sorted_vec every item exactly once from the highest to
\* the lowest.
SortedVecOrdered ==
    LET up == into_ascending_sorted_vec(Queue)
        down == into_descending_sorted_vec(Queue)
    IN  /\ EachItemOnce(Queue, up)
        /\ EachItemOnce(Queue, down)
        /\ \A j \in DOMAIN up : \A k \in DOMAIN up :
              j < k => PrioOf(Queue, up[j]) <= PrioOf(Queue, up[k])
        /\ \A j \in DOMAIN down : \A k \in DOMAIN down :
              j < k => PrioOf(Queue, down[j]) >= PrioOf(Queue, down[k])

\* what a call does to len(): +1, -1 or 0
Grew(r) == IF r.r = None THEN 1 ELSE 0
Shrank(r) == IF r.r # None THEN 1 ELSE 0

\* C6: len() changes by +1 exactly on a push that returns None, by -1
\* exactly on a pop_min, pop_max or remove that returns Some, and not at all
\* otherwise, so that from the empty queue it is the number of entries
\* stored; is_empty() is true exactly when that number is 0.
LenCountsCalls ==
    /\ len(Queue) = Cardinality(StoredItems(Queue))
    /\ is_empty(Queue) <=> StoredItems(Queue) = {}
    /\ \A item \in ItemsInPlay : \A p \in PriosInPlay :
        /\ len(push(Queue, item, p).q) = len(Queue) + Grew(push(Queue, item, p))
        /\ len(push_increase(Queue, item, p).q)
             = len(Queue) + Grew(push_increase(Queue, item, p))
        /\ len(push_decrease(Queue, item, p).q)
             = len(Queue) + Grew(push_decrease(Queue, item, p))
        /\ len(change_priority(Queue, item, p).q) = len(Queue)
    /\ \A item \in ItemsInPlay :
        len(remove(Queue, item).q) = len(Queue) - Shrank(remove(Queue, item))
    /\ len(pop_min(Queue).q) = len(Queue) - Shrank(pop_min(Queue))
    /\ len(pop_max(Queue).q) = len(Queue) - Shrank(pop_max(Queue))

LenCountsCallsWitness ==
    /\ len(Queue) = 2
    /\ \E item \in ItemsInPlay : push(Queue, item, 0).r = None
    /\ \E item \in ItemsInPlay : push(Queue, item, 0).r # None
    /\ pop_min(Queue).r # None
    /\ \E item \in ItemsInPlay : remove(Queue, item).r = None

\* C7: push(item, p) returns None and increases len() by one when item is
\* not in the queue, returns Some(old priority) and leaves len() unchanged
\* when it is; either way get_priority(item) is p right afterwards.
PushContract ==
    \A item \in ItemsInPlay : \A p \in PriosInPlay :
        LET r == push(Queue, item, p)
            old == get_priority(Queue, item)
        IN  /\ old = None => r.r = None /\ len(r.q) = len(Queue) + 1
            /\ old # None => r.r = old /\ len(r.q) = len(Queue)
            /\ get_priority(r.q, item) = Some(p)

PushContractWitness ==
    /\ \E item \in ItemsInPlay : get_priority(Queue, item) = None
    /\ \E item \in ItemsInPlay : \E p \in PriosInPlay :
         /\ get_priority(Queue, item) # None
         /\ get_priority(Queue, item) # Some(p)
         /\ push(Queue, item, p).q.heap # heap

\* the priorities of all the items but one are the same in q1 and q2
OthersUntouched(q1, q2, item) ==
    \A other \in StoredItems(q1) \cup StoredItems(q2) :
        other # item => get_priority(q2, other) = get_priority(q1, other)

\* C8: change_priority(item, p2) on a stored item returns Some(old priority),
\* get_priority(item) is p2 afterwards, len() and the other priorities are
\* unchanged; change_priority_by(item, f) leaves f(old priority) stored and
\* repositions the entry as change_priority to that value does.
ChangePriorityContract ==
    \A item \in StoredItems(Queue) :
        /\ \A p2 \in PriosInPlay :
            LET r == change_priority(Queue, item, p2)
            IN  /\ r.r = get_priority(Queue, item)
                /\ get_priority(r.q, item) = Some(p2)
                /\ len(r.q) = len(Queue)
                /\ OthersUntouched(Queue, r.q, item)
        /\ \A d \in Setters :
            LET r == change_priority_by(Queue, item, d)
                new == ApplySetter(d, PrioOf(Queue, item))
            IN  /\ get_priority(r.q, item) = Some(new)
                /\ len(r.q) = len(Queue)
                /\ OthersUntouched(Queue, r.q, item)
                /\ r.q = change_priority(Queue, item, new).q

ChangePriorityContractWitness ==
    /\ len(Queue) = 3
    /\ \E item \in StoredItems(Queue) : \E p2 \in PriosInPlay :
         /\ PrioOf(Queue, item) # p2
         /\ change_priority(Queue, item, p2).q.heap # heap

\* C9: push_increase(item, p) inserts an absent item and returns None; on an
\* item stored with a priority strictly lower than p it stores p and returns
\* Some(old priority); on an item stored with a priority >= p it returns
\* Some(p) and leaves the whole queue untouched.  push_decrease mirrors it.
PushIncreaseDecreaseContract ==
    \A item \in ItemsInPlay : \A p \in PriosInPlay :
        LET old == get_priority(Queue, item)
            up == push_increase(Queue, item, p)
            down == push_decrease(Queue, item, p)
        IN  /\ old = None =>
                /\ up.r = None /\ get_priority(up.q, item) = Some(p)
                /\ down.r = None /\ get_priority(down.q, item) = Some(p)
            /\ old # None =>
                /\ old[1] < p => up.r = old /\ get_priority(up.q, item) = Some(p)
                /\ old[1] >= p => up.r = Some(p) /\ up.q = Queue
                /\ old[1] > p => down.r = old /\ get_priority(down.q, item) = Some(p)
                /\ old[1] <= p => down.r = Some(p) /\ down.q = Queue

PushIncreaseDecreaseContractWitness ==
    /\ \E item \in ItemsInPlay : get_priority(Queue, item) = None
    /\ \E item \in StoredItems(Queue) :
         /\ PrioOf(Queue, item) = 0
         /\ push_increase(Queue, item, 1).q # Queue
         /\ push_increase(Queue, item, 0).q = Queue
         /\ push_decrease(Queue, item, 0).r = Some(0)
    /\ \E item \in StoredItems(Queue) :
         /\ PrioOf(Queue, item) = 1
         /\ push_decrease(Queue, item, 0).q # Queue
         /\ push_decrease(Queue, item, 1).q = Queue

\* C10: remove(item) on a stored item returns Some((item, its priority));
\* afterwards get_priority(item) is None, len() is one less and every other
\* item is still stored with its priority unchanged.
RemoveContract ==
    \A item \in StoredItems(Queue) :
        LET r == remove(Queue, item)
        IN  /\ r.r = Some(<<item, PrioOf(Queue, item)>>)
            /\ get_priority(r.q, item) = None
            /\ len(r.q) = len(Queue) - 1
            /\ StoredItems(r.q) = StoredItems(Queue) \ {item}
            /\ OthersUntouched(Queue, r.q, item)

RemoveContractWitness ==
    /\ len(Queue) = 3
    /\ \E item \in StoredItems(Queue) :
         /\ IndexOf(Queue, item) = 0
         /\ qp[0] = 0
         /\ remove(Queue, item).q.heap # heap

\* C11: pop_min, pop_max, peek_min and peek_max on an empty queue return
\* None; remove, change_priority and change_priority_by on an item that is
\* not in the queue return None (or nothing); in each case the map, the
\* shape array, the position table and len() are what they were.
AbsenceIsNoOp ==
    /\ is_empty(Queue) =>
        /\ peek_min(Queue) = None
        /\ peek_max(Queue) = None
        /\ pop_min(Queue) = [q |-> Queue, r |-> None]
        /\ pop_max(Queue) = [q |-> Queue, r |-> None]
    /\ \A item \in ItemsInPlay :
        get_priority(Queue, item) = None =>
            /\ remove(Queue, item) = [q |-> Queue, r |-> None]
            /\ \A p \in PriosInPlay :
                 change_priority(Queue, item, p) = [q |-> Queue, r |-> None]
            /\ \A d \in Setters :
                 change_priority_by(Queue, item, d) = [q |-> Queue, r |-> None]

AbsenceIsNoOpWitness ==
    /\ len(Queue) = 2
    /\ heap[0] # 0
    /\ \E item \in ItemsInPlay :
         /\ get_priority(Queue, item) = None
         /\ remove(Queue, item).r = None
         /\ change_priority(Queue, item, 0).r = None

\* C12: at the end of every public mutating call the map, the shape array
\* and the position table have len() entries each, the shape array is a
\* permutation of the slots 0..len()-1, and shape[position[s]] = s for every
\* slot s (position[shape[p]] = p for every position p).
DualIndirectionInvariant ==
    /\ DualIndirection
    /\ {heap[p] : p \in DOMAIN heap} = 0..(len(Queue) - 1)
    /\ \A s \in DOMAIN qp : qp[s] \in DOMAIN heap /\ heap[qp[s]] = s

DualIndirectionInvariantWitness ==
    /\ len(Queue) = 3
    /\ \E p \in DOMAIN heap : heap[p] # p
    /\ \E item \in StoredItems(Queue) : push(Queue, item, 0).q.heap # heap

\* the items of a batch, and the priority an item has where it occurs
\* first and where it occurs last
BatchItems(b) == {b[k][1] : k \in DOMAIN b}
Occurrences(b, item) == {k \in DOMAIN b : b[k][1] = item}
FirstPrio(b, item) ==
    b[CHOOSE k \in Occurrences(b, item) : \A j \in Occurrences(b, item) : k <= j][2]
LastPrio(b, item) ==
    b[CHOOSE k \in Occurrences(b, item) : \A j \in Occurrences(b, item) : k >= j][2]

\* q holds each distinct item of the batch b exactly once
HoldsEachItemOnce(q, b) ==
    /\ StoredItems(q) = BatchItems(b)
    /\ VLen(q.map) = Cardinality(BatchItems(b))
    /\ len(q) = Cardinality(BatchItems(b))

PriorityOf(o) == IF o = None THEN None ELSE Some(o[1][2])

\* C14: for every valid queue and every batch, the rebuild branch of extend
\* (store.extend then heap_build) and the push-each-pair branch give the
\* same item-to-priority mapping and the same len(), both satisfy the
\* min-max heap invariant, and peek_min and peek_max have the same
\* priorities in both.
ExtendStrategyUnobservable ==
    (MinMaxHeap /\ DualIndirection) =>
        LET a == extend_rebuild(Queue, Batch)
            b == extend_push(Queue, Batch)
        IN  /\ Entries(a) = Entries(b)
            /\ len(a) = len(b)
            /\ MinMaxHeapOf(a)
            /\ MinMaxHeapOf(b)
            /\ PriorityOf(peek_min(a)) = PriorityOf(peek_min(b))
            /\ PriorityOf(peek_max(a)) = PriorityOf(peek_max(b))

Constructed ==
    \/ Queue = from_vec(Batch)
    \/ Queue = from_iter(Batch)
    \/ PushedInOrder(Batch) /\ Queue = from_priority_queue(store_from_iter(Batch))

\* C16: heap_build called a second time right after a first call changes
\* nothing: the shape array, the position table and the results of peek_min
\* and peek_max stay as the first call left them.
HeapBuildIdempotent ==
    Constructed =>
        /\ heap_build(Queue).heap = heap
        /\ heap_build(Queue).qp = qp
        /\ peek_min(heap_build(Queue)) = peek_min(Queue)
        /\ peek_max(heap_build(Queue)) = peek_max(Queue)

\* C17: a mutable traversal that modifies no priority moves nothing:
\* heap_build on a state that satisfies the min-max heap invariant leaves
\* the shape array and the position table unchanged, also with equal
\* priorities.
UnmodifiedTraversalMovesNothing ==
    MinMaxHeap =>
        /\ iter_mut(Queue, PrioritiesOf(Queue)).heap = heap
        /\ iter_mut(Queue, PrioritiesOf(Queue)).qp = qp
        /\ iter_mut(Queue, PrioritiesOf(Queue)) = Queue

UnmodifiedTraversalMovesNothingWitness ==
    /\ MinMaxHeap
    /\ len(Queue) = 3
    /\ heap[0] # 0
    /\ PrioAt(1) = PrioAt(2)
    /\ PrioAt(0) = PrioAt(1)

\* C18: after heap_build on arbitrary shape-array contents and priorities
\* (construction from a vector or an iterator, conversion from a
\* PriorityQueue) every even-level node is <= all its descendants and every
\* odd-level node is >= all its descendants.
HeapBuildEstablishesInvariant == Constructed => MinMaxHeap

\* C19: from a state that satisfies the min-max heap invariant,
\* change_priority, change_priority_by and push on a stored item, with any
\* new priority, end in a state that satisfies the invariant at every
\* position.
RepositionKeepsHeap ==
    MinMaxHeap =>
        \A item \in StoredItems(Queue) :
            /\ \A p \in PriosInPlay :
                   /\ MinMaxHeapOf(change_priority(Queue, item, p).q)
                   /\ MinMaxHeapOf(push(Queue, item, p).q)
            /\ \A f \in Setters :
                   MinMaxHeapOf(change_priority_by(Queue, item, f).q)

\* C20: from a state that satisfies the min-max heap invariant, pop_min
\* ends in a state that satisfies it.
PopMinKeepsHeap == MinMaxHeap => MinMaxHeapOf(pop_min(Queue).q)

\* C21: from a state that satisfies the min-max heap invariant, pop_max
\* ends in a state that satisfies it.
PopMaxKeepsHeap == MinMaxHeap => MinMaxHeapOf(pop_max(Queue).q)

\* C22: from a state that satisfies the min-max heap invariant, remove of
\* any stored item, at whatever heap position it lies, ends in a state that
\* satisfies it.
RemoveKeepsHeap ==
    MinMaxHeap =>
        \A item \in StoredItems(Queue) : MinMaxHeapOf(remove(Queue, item).q)

\* C23: from a state that satisfies the min-max heap invariant, push of an
\* item not yet stored ends in a state that satisfies it, with the new slot
\* stored at the position bubble_up returns.
PushNewKeepsHeap ==
    MinMaxHeap =>
        \A item \in ItemsInPlay \ StoredItems(Queue) : \A p \in PriosInPlay :
            LET after == push(Queue, item, p).q
                slot == size
                b == bubble_up([map |-> after.map, heap |-> VPush(heap, slot),
                                qp |-> VPush(qp, slot), size |-> size],
                               slot, slot)
            IN  /\ MinMaxHeapOf(after)
                /\ after.map[slot] = [item |-> item, prio |-> p]
                /\ after.heap[b.pos] = slot
                /\ after.qp[slot] = b.pos

\* a stored slot whose priority another stored slot shares
HasEqualPriorities ==
    \E a \in DOMAIN map : \E b \in DOMAIN map : a # b /\ map[a].prio = map[b].prio

PopMaxKeepsHeapWitness ==
    /\ size = 3
    /\ MinMaxHeap
    /\ HasEqualPriorities
    /\ \E a \in DOMAIN map : \E b \in DOMAIN map : map[a].prio # map[b].prio

PushNewKeepsHeapWitness ==
    /\ size = GrowLen
    /\ MinMaxHeap
    /\ heap[0] = size - 1
    /\ PrioAt(0) < PrioAt(1)

\* C24: in every reachable state find_max yields no position for the empty
\* queue, position 0 for size 1, position 1 for size 2 and, from size 3 on,
\* the one of positions 1 and 2 that holds the larger priority; the entry
\* at the position yielded has the greatest priority of the whole queue.
FindMaxLocatesGreatest ==
    LET fm == find_max(Queue) IN
    /\ size = 0 => fm = None
    /\ size = 1 => fm = Some(0)
    /\ size = 2 => fm = Some(1)
    /\ size >= 3 => /\ fm \in {Some(1), Some(2)}
                    /\ PrioAt(fm[1]) >= PrioAt(1)
                    /\ PrioAt(fm[1]) >= PrioAt(2)
    /\ size > 0 => \A s \in DOMAIN map : map[s].prio <= PrioAt(fm[1])

\* C25: while a mutable traversal is in progress no other call is made, and
\* when it ends, complete or not, with or without a change, the heap has
\* been rebuilt: whenever a public call can be made the state satisfies the
\* min-max heap invariant.
DeferredRepair == cursor = None => MinMaxHeap

\* the number of cells of the shape array in which q1 and q2 differ
Moved(q1, q2) == Cardinality({p \in DOMAIN q1.heap : q1.heap[p] # q2.heap[p]})

\* C26: heap repair terminates. Whenever the loop body of heapify_min or
\* heapify_max runs at a position, the position it moves to is greater (a
\* child or a grandchild, inside the heap); bubble_up_min and bubble_up_max
\* move to the grandparent, which is smaller; and heapify, bubble_up,
\* up_heapify and heap_build end having moved a number of cells bounded by
\* the depth of the tree, whatever the priorities.
HeapRepairTerminates ==
    /\ \A m \in DOMAIN heap :
           /\ (size > 1 /\ m <= parent(size - 1)) =>
                  /\ MinByKey(Queue, Candidates(Queue, m), 1) > m
                  /\ MinByKey(Queue, Candidates(Queue, m), 1) < size
                  /\ MaxByKey(Queue, Candidates(Queue, m), 1) > m
                  /\ MaxByKey(Queue, Candidates(Queue, m), 1) < size
           /\ (m > 0 /\ parent(m) > 0) => parent(parent(m)) < m
           /\ Moved(Queue, heapify(Queue, m))
                  <= 2 * (level(size - 1) - level(m)) + 1
           /\ Moved(Queue, bubble_up(Queue, m, heap[m]).q) <= level(m) + 1
           /\ bubble_up(Queue, m, heap[m]).pos <= m
           /\ Moved(Queue, up_heapify(Queue, m))
                  <= 2 * level(size - 1) + 2
    /\ heap_build(Queue).size = size

HeapRepairTerminatesWitness ==
    /\ size = RepairLen
    /\ \E m \in DOMAIN heap : Moved(Queue, heapify(Queue, m)) >= 3
    /\ \E m \in DOMAIN heap : bubble_up(Queue, m, heap[m]).pos < parent(m)

\* floor(log2(n)) for n >= 1, by its definition
FloorLog2(n) == CHOOSE k \in 0..n : 2^k <= n /\ n < 2^(k + 1)

\* the size bound extend goes by: the upper one, else the lower one
HintUsed == IF lim.hint.max # None THEN lim.hint.max[1] ELSE lim.hint.min

\* C27: extend chooses the full rebuild exactly when the size n is greater
\* than 1 and 2*(n+m) < m*floor(log2(n)), m being the upper bound of the
\* size hint, or the lower one when there is no upper one and the lower one
\* is not zero; so it never rebuilds when n < 8 nor when the hint is
\* (0, unbounded), and from n = 8 on only when m is large relative to n.
RebuildChoice ==
    lim.fuel = Some(HintCalls) =>
        LET n == size
            m == HintUsed
            chosen == rebuild(n, lim.hint.min, lim.hint.max)
        IN  /\ chosen <=> /\ lim.hint.max # None \/ lim.hint.min # 0
                          /\ n > 1
                          /\ 2 * (n + m) < m * FloorLog2(n)
            /\ n < 8 => ~chosen
            /\ (lim.hint.min = 0 /\ lim.hint.max = None) => ~chosen
            /\ chosen => m * (FloorLog2(n) - 2) > 2 * n

RebuildChoiceWitness ==
    /\ lim.fuel = Some(HintCalls)
    /\ size = 8
    /\ lim.hint = [min |-> 0, max |-> Some(17)]
    /\ rebuild(size, lim.hint.min, lim.hint.max)

\* C28: no public operation indexes out of range or underflows: in every
\* reachable state, for every call and every argument, each unchecked access
\* is below the length of what it reads, parent is not evaluated at 0 nor
\* size - 1 at size 0, and heapify_min and heapify_max have a candidate
\* whenever their loop body runs; so also for the heapify that follows the
\* pop of the last element.
NoOutOfRange ==
    /\ peek_min_safe(Queue)
    /\ peek_max_safe(Queue)
    /\ pop_min_safe(Queue)
    /\ pop_max_safe(Queue)
    /\ heap_build_safe(Queue)
    /\ \A item \in ItemsInPlay :
           /\ remove_safe(Queue, item)
           /\ \A p \in PriosInPlay :
                  /\ push_safe(Queue, item, p)
                  /\ change_priority_safe(Queue, item, p)

NoOutOfRangeWitness ==
    /\ size = 0
    /\ lim.fuel = Some(0)
    /\ push_safe(Queue, 1, 0)

\* the stored (item, priority) pairs of q, as a function of the items; it
\* is all of the content when no item is stored twice
Content(q) == [item \in StoredItems(q) |-> PrioOf(q, item)]
NoItemTwice(q) == Cardinality(StoredItems(q)) = VLen(q.map)

\* f with x mapped to v, and f without x
With(f, x, v) == [y \in DOMAIN f \cup {x} |-> IF y = x THEN v ELSE f[y]]
Without(f, x) == [y \in DOMAIN f \ {x} |-> f[y]]

\* C29: heap repair rearranges positions, never contents. pop_min, pop_max
\* and remove delete the pair they return and no other, and leave every
\* other item its priority; push, change_priority and change_priority_by
\* change the priority of the item addressed only; heap_build changes no
\* item and no priority.
RepairKeepsContent ==
    LET before == Content(Queue) IN
    /\ NoItemTwice(Queue)
    /\ \A popped \in {pop_min(Queue), pop_max(Queue)} :
           /\ NoItemTwice(popped.q)
           /\ IF popped.r = None
              THEN size = 0 /\ Content(popped.q) = before
              ELSE /\ popped.r[1][1] \in DOMAIN before
                   /\ before[popped.r[1][1]] = popped.r[1][2]
                   /\ Content(popped.q) = Without(before, popped.r[1][1])
    /\ Content(heap_build(Queue)) = before
    /\ NoItemTwice(heap_build(Queue))
    /\ \A item \in ItemsInPlay :
           /\ NoItemTwice(remove(Queue, item).q)
           /\ Content(remove(Queue, item).q) = Without(before, item)
           /\ item \in DOMAIN before =>
                  remove(Queue, item).r = Some(<<item, before[item]>>)
           /\ \A p \in PriosInPlay :
                  /\ NoItemTwice(push(Queue, item, p).q)
                  /\ Content(push(Queue, item, p).q) = With(before, item, p)
                  /\ Content(change_priority(Queue, item, p).q) =
                         IF item \in DOMAIN before THEN With(before, item, p)
                         ELSE before
           /\ \A d \in Setters :
                  Content(change_priority_by(Queue, item, d).q) =
                      IF item \in DOMAIN before
                      THEN With(before, item, ApplySetter(d, before[item]))
                      ELSE before

RepairKeepsContentWitness ==
    /\ lim.fuel = Some(0)
    /\ size = SafeLen - 1
    /\ \E a \in DOMAIN map : \E b \in DOMAIN map : map[a].prio # map[b].prio
    /\ \E item \in StoredItems(Queue) : heap[0] # IndexOf(Queue, item)
                                        /\ remove(Queue, item).q.heap # heap

====
